---- MODULE Spec2Model ----
(***************************************************************************)
(* A model of the Dialog Record Builder (src/DialogBuilder.py) and of the   *)
(* Operation Builder (src/OperatorBuilder.py).                             *)
(*                                                                         *)
(* Python objects are modelled explicitly: the class object DialogBuilder  *)
(* has an attribute dictionary (cls), every instance has its own           *)
(* attribute dictionary (inst[self]), attribute reads fall back from the   *)
(* instance to the class, attribute writes through self always create or   *)
(* replace an instance attribute, and list objects that are mutated in     *)
(* place (the dialogs lists) live in a heap and are referred to by         *)
(* reference.  A method is an operator from a world to a result            *)
(* (new world, exception or "", return value); an exception keeps every    *)
(* write made before it was raised.                                        *)
(*                                                                         *)
(* An operation builder has one attribute, the list self.tuples            *)
(* (tuples[self]); held[self] are the results its done() has returned.     *)
(***************************************************************************)
EXTENDS Integers, Sequences, FiniteSets, TLC

\* The number of method calls made in one run of the model.
MaxCalls == 7

\* header_dialogs constants used by reply(): the speaker flags.
anyone == 4095
plyr == 65536

\* The builder instances that exist (two variables bound to DialogBuilder()).
Inst == {"a", "b"}

\* The number of OperatorBuilder method calls made in one run of the model.
MaxOps == 3

\* Longest argument list handed to OperatorBuilder.tuple().
MaxArgs == 3

\* The number of tuple() calls with arbitrary arguments in one run.
MaxTuples == 1

\* The operation builders that exist (variables bound to OperatorBuilder()).
OInst == {"x", "y"}

VARIABLES cls, inst, heap, nlists, last, ret, handed, calls, tuples, held

vars == <<cls, inst, heap, nlists, last, ret, handed, calls, tuples, held>>

---------------------------------------------------------------------------
\* Python values: every value is a record [t: type tag, v: payload].

PyNone == [t |-> "None", v |-> 0]
PyStr(s) == [t |-> "str", v |-> s]
PyInt(n) == [t |-> "int", v |-> n]
PyBool(b) == [t |-> "bool", v |-> b]
PyList(s) == [t |-> "list", v |-> s]
PyTuple(s) == [t |-> "tuple", v |-> s]
\* A reference to a list object of the heap (a list that is mutated in place).
PyRef(id) == [t |-> "listref", v |-> id]
\* A reference to a builder instance (what "return self" returns).
PySelf(self) == [t |-> "DialogBuilder", v |-> self]
\* An operation code imported from the headers, known by its name.
Opcode(name) == [t |-> "opcode", v |-> name]

\* A dict, as the sequence of its (key, value) pairs in insertion order.
PyDict(s) == [t |-> "dict", v |-> s]

\* The operation builder itself, as returned for chaining.
OBSelf(self) == [t |-> "OperatorBuilder", v |-> self]

\* A reference to the live list self.tuples of an operation builder.
TuplesOf(self) == [t |-> "tuples", v |-> self]

\* OperatorBuilder.__init__: self.tuples of a new builder.
NewOperatorBuilder == <<>>

\* The instance dictionary has no entry of that name.
Absent == [t |-> "absent", v |-> 0]

\* int.__or__ on non-negative integers.
RECURSIVE BitOr(_, _)
BitOr(x, y) ==
    IF x = 0 THEN y
    ELSE IF y = 0 THEN x
    ELSE (IF x % 2 = 1 \/ y % 2 = 1 THEN 1 ELSE 0) + 2 * BitOr(x \div 2, y \div 2)

\* operator.or_ on two Python ints.
or_(x, y) == PyInt(BitOr(x.v, y.v))

\* A variant of the reduction that keeps only the last element.
reduce_or_Last(s) == s[Len(s)]

\* functools.reduce(or_, s) for a non-empty sequence s.
RECURSIVE reduce_or(_)
reduce_or(s) ==
    IF Len(s) = 1 THEN s[1]
    ELSE or_(reduce_or(SubSeq(s, 1, Len(s) - 1)), s[Len(s)])

---------------------------------------------------------------------------
\* The object model.

FieldNames ==
    {"partner_bitwise", "pre_state_string", "pre_state_reply_string",
     "condition_tuples", "dialog_string", "post_state_string",
     "consequence_tuples"}

AttrNames == FieldNames \cup {"dialogs"}

\* The class body of DialogBuilder: the class attributes and their values.
\* The class-level list dialogs = [] is list object 0 of the heap.
ClassBody ==
    [dialogs |-> PyRef(0),
     partner_bitwise |-> PyNone,
     pre_state_string |-> PyNone,
     pre_state_reply_string |-> PyNone,
     condition_tuples |-> PyList(<<>>),
     dialog_string |-> PyStr(""),
     post_state_string |-> PyNone,
     consequence_tuples |-> PyList(<<>>)]

\* DialogBuilder(): the class defines no __init__, a new instance has an
\* empty attribute dictionary.
NewInstance == [a \in AttrNames |-> Absent]

\* The current world as one value.
World == [cls |-> cls, inst |-> inst, heap |-> heap, nlists |-> nlists]

\* self.<a> read: the instance attribute if there is one, else the class attribute.
Get(w, self, a) ==
    IF w.inst[self][a] # Absent THEN w.inst[self][a] ELSE w.cls[a]

\* A variant of the attribute write that rebinds the class attribute.
Set_OnClass(w, self, a, val) == [w EXCEPT !.cls[a] = val]

\* self.<a> = val: always binds the name in the instance dictionary.
Set(w, self, a, val) == [w EXCEPT !.inst[self][a] = val]

\* The elements of the list object a reference points to.
Deref(w, ref) == w.heap[ref.v]

\* list.append(x) on the list object ref points to: mutation in place.
ListAppend(w, ref, x) == [w EXCEPT !.heap[ref.v] = Append(@, x)]

\* The evaluation of a list display [] whose object is kept: a new list object.
NewListId(w) == w.nlists
AllocList(w) == [w EXCEPT !.heap[w.nlists] = <<>>, !.nlists = @ + 1]

\* The outcome of a call: it returned (err = "") or raised.
Ok(w, r) == [w |-> w, err |-> "", ret |-> r]
Raise(w, e) == [w |-> w, err |-> e, ret |-> PyNone]

---------------------------------------------------------------------------
\* The methods of DialogBuilder.

\* A variant of build that forgets the speaker once it has handed out the entry.
build_ForgetsPartner(w, self) ==
    Ok(Set(w, self, "partner_bitwise", PyNone),
       PyTuple(<<Get(w, self, "partner_bitwise"),
                 Get(w, self, "pre_state_string"),
                 Get(w, self, "condition_tuples"),
                 Get(w, self, "dialog_string"),
                 Get(w, self, "post_state_string"),
                 Get(w, self, "consequence_tuples")>>))

\* build(): the tuple of the current per-entry fields.
build(w, self) ==
    Ok(w, PyTuple(<<Get(w, self, "partner_bitwise"),
                    Get(w, self, "pre_state_string"),
                    Get(w, self, "condition_tuples"),
                    Get(w, self, "dialog_string"),
                    Get(w, self, "post_state_string"),
                    Get(w, self, "consequence_tuples")>>))

\* The list display of line 69: the entry built from the current fields.
CurrentDialog(w, self) == PyList(build(w, self).ret.v)

\* A variant of the reset that also forgets the reply base state.
ResetFields_WithReplyBase(w, self) ==
    LET w1 == Set(w, self, "partner_bitwise", PyNone)
        w2 == Set(w1, self, "pre_state_string", PyNone)
        w3 == Set(w2, self, "condition_tuples", PyList(<<>>))
        w4 == Set(w3, self, "dialog_string", PyStr(""))
        w5 == Set(w4, self, "post_state_string", PyNone)
    IN  Set(Set(w5, self, "consequence_tuples", PyList(<<>>)), self, "pre_state_reply_string", PyNone)

\* Lines 71-76 of append: the per-entry fields are set back.
ResetFields(w, self) ==
    LET w1 == Set(w, self, "partner_bitwise", PyNone)
        w2 == Set(w1, self, "pre_state_string", PyNone)
        w3 == Set(w2, self, "condition_tuples", PyList(<<>>))
        w4 == Set(w3, self, "dialog_string", PyStr(""))
        w5 == Set(w4, self, "post_state_string", PyNone)
    IN  Set(w5, self, "consequence_tuples", PyList(<<>>))

\* A variant of line 78 for a builder whose list is made per instance: the
\* first append of an instance binds a list of its own.
EmitDialog_PerInstance(w, self, dialog) ==
    IF w.inst[self]["dialogs"] = Absent
    THEN ListAppend(Set(AllocList(w), self, "dialogs", PyRef(NewListId(w))),
                    PyRef(NewListId(w)), dialog)
    ELSE ListAppend(w, Get(w, self, "dialogs"), dialog)

\* Line 78 of append: self.dialogs.append(dialog).
EmitDialog(w, self, dialog) == ListAppend(w, Get(w, self, "dialogs"), dialog)

\* Lines 53-66 of append: the exception the checks raise, "" when all pass.
Validate(w, self, dialog) ==
    IF dialog # PyList(<<>>) /\ dialog.t # "list"
    THEN "ValueError: dialog must be a list"
    ELSE IF Get(w, self, "partner_bitwise") = PyNone
    THEN "ValueError: partner must be set"
    ELSE IF Get(w, self, "pre_state_string") = PyNone
    THEN "ValueError: pre_state must be set"
    ELSE IF Get(w, self, "post_state_string") = PyNone
    THEN "ValueError: post_state must be set"
    ELSE IF Get(w, self, "dialog_string") = PyNone
    THEN "ValueError: dialog must be set"
    ELSE ""

\* A variant of append that emits the entry and leaves the fields as they are.
append_NoReset(w, self, dialog) ==
    IF Validate(w, self, dialog) # ""
    THEN Raise(w, Validate(w, self, dialog))
    ELSE LET d == IF dialog = PyList(<<>>) THEN CurrentDialog(w, self) ELSE dialog
         IN  Ok(EmitDialog(w, self, d), PySelf(self))

\* append(dialog = []).
append(w, self, dialog) ==
    IF Validate(w, self, dialog) # ""
    THEN Raise(w, Validate(w, self, dialog))
    ELSE LET d == IF dialog = PyList(<<>>) THEN CurrentDialog(w, self) ELSE dialog
         IN  Ok(EmitDialog(ResetFields(w, self), self, d), PySelf(self))

\* A variant of the hand-off that returns self.dialogs after rebinding it.
HandOff_ReturnsNew(w, self) ==
    Ok(Set(AllocList(w), self, "dialogs", PyRef(NewListId(w))), PyRef(NewListId(w)))

\* Lines 107-109 of done: the list is handed out and self.dialogs is rebound
\* to a new empty list.
HandOff(w, self) ==
    LET dialogs == Get(w, self, "dialogs")
        w1 == AllocList(w)
    IN  Ok(Set(w1, self, "dialogs", PyRef(NewListId(w))), dialogs)

\* A variant of done that finalizes the entry in progress whatever the
\* accumulated sequence holds.
done_AlwaysFinalize(w, self) ==
    LET r == append(w, self, PyList(<<>>))
    IN  IF r.err # "" THEN r ELSE HandOff(r.w, self)

\* A variant of done that hands over an empty sequence as it is.
done_ReturnsEmpty(w, self) == HandOff(w, self)

\* A variant of done that sets the per-entry fields back when it hands over.
done_ResetsEntry(w, self) ==
    IF Deref(w, Get(w, self, "dialogs")) = <<>>
    THEN LET r == append(w, self, PyList(<<>>))
         IN  IF r.err # "" THEN r ELSE HandOff(r.w, self)
    ELSE HandOff(ResetFields(w, self), self)

\* done().
done(w, self) ==
    IF Deref(w, Get(w, self, "dialogs")) = <<>>
    THEN LET r == append(w, self, PyList(<<>>))
         IN  IF r.err # "" THEN r ELSE HandOff(r.w, self)
    ELSE HandOff(w, self)

\* partner(partner).
partner(w, self, p) ==
    LET w1 == Set(w, self, "partner_bitwise", p)
    IN  IF p.t = "list"
        THEN IF p.v = <<>>
             THEN Raise(w1, "TypeError: reduce() of empty sequence with no initial value")
             ELSE Ok(Set(w1, self, "partner_bitwise", reduce_or(p.v)), PySelf(self))
        ELSE Ok(w1, PySelf(self))

\* A variant of pre_state that remembers every name as the reply base state.
pre_state_AlwaysOnReply(w, self, prestate, on_reply) ==
    Ok(Set(Set(w, self, "pre_state_string", prestate),
           self, "pre_state_reply_string", prestate), PySelf(self))

\* pre_state(prestate, on_reply = False).
pre_state(w, self, prestate, on_reply) ==
    LET w1 == Set(w, self, "pre_state_string", prestate)
    IN  IF on_reply
        THEN Ok(Set(w1, self, "pre_state_reply_string", prestate), PySelf(self))
        ELSE Ok(w1, PySelf(self))

\* A variant of condition that takes any sequence, list or tuple.
condition_AnySequence(w, self, c) ==
    IF c.t \notin {"list", "tuple"}
    THEN Raise(w, "ValueError: condition must be a list")
    ELSE Ok(Set(w, self, "condition_tuples", c), PySelf(self))

\* condition(condition).
condition(w, self, c) ==
    IF c.t # "list"
    THEN Raise(w, "ValueError: condition must be a list")
    ELSE Ok(Set(w, self, "condition_tuples", c), PySelf(self))

\* dialog(text).
dialog(w, self, text) == Ok(Set(w, self, "dialog_string", text), PySelf(self))

\* post_state(poststate = "close_window").
post_state(w, self, poststate) ==
    Ok(Set(w, self, "post_state_string", poststate), PySelf(self))

\* state(prestate, poststate).
state(w, self, prestate, poststate) ==
    LET r1 == pre_state(w, self, prestate, FALSE)
        r2 == post_state(r1.w, self, poststate)
    IN  Ok(r2.w, PySelf(self))

\* A variant of consequence that emits the entry before it stores the list.
consequence_AppendFirst(w, self, c) ==
    IF c.t # "list"
    THEN Raise(w, "ValueError: consequence must be a list")
    ELSE LET r == append(w, self, PyList(<<>>))
         IN  IF r.err # "" THEN r
             ELSE Ok(Set(r.w, self, "consequence_tuples", c), PySelf(self))

\* consequence(consequence).
consequence(w, self, c) ==
    IF c.t # "list"
    THEN Raise(w, "ValueError: consequence must be a list")
    ELSE append(Set(w, self, "consequence_tuples", c), self, PyList(<<>>))

\* end(), start(), replies_end().
end(w, self) == Ok(w, PySelf(self))

start(w, self) == Ok(w, PySelf(self))

\* A variant of replies_end that also forgets the reply base state.
replies_end_ClearsReplyBase(w, self) ==
    Ok(Set(w, self, "pre_state_reply_string", PyNone), PySelf(self))

replies_end(w, self) == Ok(w, PySelf(self))

\* The subscription self.dialogs[-1][4] of line 292.
LastPostState(w, self) ==
    LET ds == Deref(w, Get(w, self, "dialogs"))
    IN  IF ds = <<>>
        THEN Raise(w, "IndexError: list index out of range")
        ELSE IF Len(ds[Len(ds)].v) < 5
        THEN Raise(w, "IndexError: list index out of range")
        ELSE Ok(w, ds[Len(ds)].v[5])

\* A variant of replies_start that never looks at the accumulated sequence.
replies_start_NoInherit(w, self, prestate) ==
    Ok(pre_state(w, self, prestate, TRUE).w, PySelf(self))

\* replies_start(prestate = "").
replies_start(w, self, prestate) ==
    LET r1 == pre_state(w, self, prestate, TRUE)
    IN  IF prestate = PyStr("")
        THEN LET r2 == LastPostState(r1.w, self)
             IN  IF r2.err # "" THEN r2
                 ELSE Ok(pre_state(r2.w, self, r2.ret, TRUE).w, PySelf(self))
        ELSE Ok(r1.w, PySelf(self))

\* The names the class body of DialogBuilder binds to functions.
Methods ==
    {"append", "build", "done", "partner", "pre_state", "condition", "state",
     "dialog", "post_state", "consequence", "end", "start", "replies_start",
     "reply", "replies_end"}

\* self.talk(text), line 313: the attribute lookup of a name that neither
\* the instance nor the class binds.
talk(w, self, text) ==
    IF "talk" \in Methods
    THEN dialog(w, self, text)
    ELSE Raise(w, "AttributeError: DialogBuilder has no attribute 'talk'")

\* reply(text, poststate = "close_window", append = True).
reply(w, self, text, poststate, app) ==
    LET r1 == partner(w, self, PyList(<<PyInt(anyone), PyInt(plyr)>>))
        r2 == pre_state(r1.w, self, Get(r1.w, self, "pre_state_reply_string"), FALSE)
        r3 == talk(r2.w, self, text)
        r4 == post_state(r3.w, self, poststate)
        r5 == append(r4.w, self, PyList(<<>>))
    IN  IF r3.err # "" THEN r3
        ELSE IF ~app THEN Ok(r4.w, PySelf(self))
        ELSE IF r5.err # "" THEN r5
        ELSE Ok(r5.w, PySelf(self))

---------------------------------------------------------------------------
\* The arguments the calls are made with.

\* An operation tuple, as the conditions and consequences lists hold them.
OpTuple == PyTuple(<<PyStr("troop_slot_eq"), PyStr("$g_talk_troop"), PyInt(0)>>)

\* partner(): one identifier, or a list of identifiers.
PartnerArgs == {PyInt(anyone), PyList(<<PyInt(anyone), PyInt(plyr)>>)}

StateNames == {PyStr("start")}

TextArgs == {PyStr("Hello."), PyNone}

PostStateArgs == {PyStr("close_window")}

\* Longest list of speakers handed to partner().
MaxPartners == 3

\* Speaker identifiers: two troop numbers and the two flags of the scripts.
PartnerIdents == {PyInt(1), PyInt(6), PyInt(anyone), PyInt(plyr)}

\* One identifier, or a list of up to MaxPartners of them.
PartnerWideArgs ==
    PartnerIdents
      \cup {PyList(s) : s \in UNION {[1 .. n -> PartnerIdents] : n \in 0 .. MaxPartners}}

\* A list of operation tuples, a tuple of them, and no sequence at all.
OpListArgs == {PyList(<<OpTuple>>), PyTuple(<<OpTuple>>), PyNone}

\* consequence(): a list of operation tuples, the empty list, no list.
ConsequenceArgs == OpListArgs \cup {PyList(<<>>)}

\* An entry written out by the caller.
ExplicitDialog ==
    PyList(<<PyInt(anyone), PyStr("start"), PyList(<<>>), PyStr("Hi."),
             PyStr("next"), PyList(<<>>)>>)

\* append(): no argument (the default []), an entry, an entry that is no list.
DialogArgs == {PyList(<<>>), ExplicitDialog, PyTuple(ExplicitDialog.v)}

RepliesStartArgs == {PyStr(""), PyStr("start")}

ReplyTexts == {PyStr("A"), PyStr("B")}

---------------------------------------------------------------------------
\* The calls a script makes, one action per method.

\* What one call leaves behind: the world, the call and its outcome.
Step(op, self, args, r) ==
    /\ calls < MaxCalls
    /\ calls' = calls + 1
    /\ cls' = r.w.cls
    /\ inst' = r.w.inst
    /\ heap' = r.w.heap
    /\ nlists' = r.w.nlists
    /\ last' = [op |-> op, self |-> self, args |-> args, err |-> r.err]
    /\ ret' = r.ret
    /\ handed' = IF op = "done" /\ r.err = "" THEN handed \cup {r.ret.v} ELSE handed
    /\ UNCHANGED <<tuples, held>>

Call_build(self) == Step("build", self, <<>>, build(World, self))

Call_done(self) == Step("done", self, <<>>, done(World, self))

Call_append(self) ==
    \E d \in DialogArgs : Step("append", self, <<d>>, append(World, self, d))

Call_partner(self) ==
    \E p \in PartnerArgs : Step("partner", self, <<p>>, partner(World, self, p))

Call_partner_wide(self) ==
    \E p \in PartnerWideArgs : Step("partner", self, <<p>>, partner(World, self, p))

Call_pre_state(self) ==
    \E n \in StateNames, on_reply \in BOOLEAN :
        Step("pre_state", self, <<n, PyBool(on_reply)>>,
             pre_state(World, self, n, on_reply))

Call_condition(self) ==
    \E c \in OpListArgs : Step("condition", self, <<c>>, condition(World, self, c))

Call_state(self) ==
    \E n \in StateNames, p \in PostStateArgs :
        Step("state", self, <<n, p>>, state(World, self, n, p))

Call_dialog(self) ==
    \E t \in TextArgs : Step("dialog", self, <<t>>, dialog(World, self, t))

Call_post_state(self) ==
    \E p \in PostStateArgs : Step("post_state", self, <<p>>, post_state(World, self, p))

Call_consequence(self) ==
    \E c \in ConsequenceArgs :
        Step("consequence", self, <<c>>, consequence(World, self, c))

Call_end(self) == Step("end", self, <<>>, end(World, self))

Call_start(self) == Step("start", self, <<>>, start(World, self))

Call_replies_end(self) == Step("replies_end", self, <<>>, replies_end(World, self))

Call_replies_start(self) ==
    \E n \in RepliesStartArgs :
        Step("replies_start", self, <<n>>, replies_start(World, self, n))

Call_reply(self) ==
    \E t \in ReplyTexts, app \in BOOLEAN :
        Step("reply", self, <<t, PyStr("close_window"), PyBool(app)>>,
             reply(World, self, t, PyStr("close_window"), app))

Init ==
    /\ cls = ClassBody
    /\ inst = [i \in Inst |-> NewInstance]
    /\ heap = [id \in 0 .. MaxCalls |-> <<>>]
    /\ nlists = 1
    /\ last = [op |-> "new", self |-> "a", args |-> <<>>, err |-> ""]
    /\ ret = PyNone
    /\ handed = {}
    /\ calls = 0
    /\ tuples = [o \in OInst |-> NewOperatorBuilder]
    /\ held = [o \in OInst |-> {}]

\* A script that uses one builder, with every method.
Next ==
    \E self \in {"a"} :
        \/ Call_append(self)
        \/ Call_build(self)
        \/ Call_done(self)
        \/ Call_partner(self)
        \/ Call_pre_state(self)
        \/ Call_condition(self)
        \/ Call_state(self)
        \/ Call_dialog(self)
        \/ Call_post_state(self)
        \/ Call_consequence(self)
        \/ Call_end(self)
        \/ Call_start(self)
        \/ Call_replies_start(self)
        \/ Call_reply(self)
        \/ Call_replies_end(self)

\* A script that uses two builders and interleaves their call chains.
NextShared ==
    \E self \in Inst :
        \/ Call_partner(self)
        \/ Call_state(self)
        \/ Call_append(self)
        \/ Call_build(self)
        \/ Call_done(self)

\* A script that only names the speaker, in every way partner() allows.
NextPartner ==
    \E self \in {"a"} :
        \/ Call_partner_wide(self)
        \/ Call_build(self)

---------------------------------------------------------------------------
\* OperatorBuilder: its methods map the list self.tuples of every builder
\* to [ts: the lists afterwards, err: the exception or "", ret: the result].

\* A variant of the flattening that splices lists as well as tuples.
RECURSIVE flattened_operation_AnySequence(_)
flattened_operation_AnySequence(operation) ==
    IF operation = <<>> THEN <<>>
    ELSE (IF operation[1].t \in {"tuple", "list"} THEN operation[1].v ELSE <<operation[1]>>)
           \o flattened_operation_AnySequence(Tail(operation))

\* tuple(j for i in operation for j in (i if type(i) is tuple else (i,))).
RECURSIVE flattened_operation(_)
flattened_operation(operation) ==
    IF operation = <<>> THEN <<>>
    ELSE (IF operation[1].t = "tuple" THEN operation[1].v ELSE <<operation[1]>>)
           \o flattened_operation(Tail(operation))

\* A variant of append that puts the item in front.
OB_append_InFront(ts, self, item) ==
    [ts |-> [ts EXCEPT ![self] = <<item>> \o @], err |-> "", ret |-> OBSelf(self)]

\* OperatorBuilder.append(item).
OB_append(ts, self, item) ==
    [ts |-> [ts EXCEPT ![self] = Append(@, item)], err |-> "", ret |-> OBSelf(self)]

\* A variant of tuple that appends its arguments as they came.
OB_tuple_Unflattened(ts, self, args) == OB_append(ts, self, PyTuple(args))

\* OperatorBuilder.tuple(*args).
OB_tuple(ts, self, args) == OB_append(ts, self, PyTuple(flattened_operation(args)))

\* A variant of done that hands over the list and starts a new one.
OB_done_Reset(ts, self) ==
    [ts |-> [ts EXCEPT ![self] = <<>>], err |-> "", ret |-> PyTuple(ts[self])]

\* A variant of done that returns a copy of the list.
OB_done_Snapshot(ts, self) == [ts |-> ts, err |-> "", ret |-> PyList(ts[self])]

\* OperatorBuilder.done().
OB_done(ts, self) == [ts |-> ts, err |-> "", ret |-> TuplesOf(self)]

\* A variant of call_script that lets 17 parameters through.
call_script_OffByOne(ts, self, script, args) ==
    IF Len(args) > 17
    THEN [ts |-> ts, ret |-> PyNone,
          err |-> "ValueError: Maximum number of parameters you can pass with the operation is 16."]
    ELSE OB_append(ts, self, PyTuple(flattened_operation(
                        <<Opcode("call_script"), script, PyTuple(args)>>)))

\* call_script(script, *args).
call_script(ts, self, script, args) ==
    IF Len(args) > 16
    THEN [ts |-> ts, ret |-> PyNone,
          err |-> "ValueError: Maximum number of parameters you can pass with the operation is 16."]
    ELSE OB_append(ts, self, PyTuple(flattened_operation(
                        <<Opcode("call_script"), script, PyTuple(args)>>)))

\* try_begin(): (try_begin) is the operation code itself, in parentheses.
try_begin(ts, self) == OB_append(ts, self, Opcode("try_begin"))

\* else_try().
else_try(ts, self) == OB_append(ts, self, Opcode("else_try"))

\* try_end().
try_end(ts, self) == OB_append(ts, self, Opcode("try_end"))

\* int(b) when skip_server is a bool, the value itself otherwise.
IntOfBool(x) == IF x.t = "bool" THEN PyInt(IF x.v THEN 1 ELSE 0) ELSE x

\* A variant of try_for_players that appends a bool as it came.
try_for_players_KeepsBool(ts, self, args) ==
    OB_append(ts, self, PyTuple(<<Opcode("try_for_players"), args[1],
                                  IF Len(args) > 1 THEN args[2] ELSE PyInt(0)>>))

\* try_for_players(iterable, skip_server = 0): args are the arguments
\* supplied, one or two.
try_for_players(ts, self, args) ==
    LET skip_server == IF Len(args) > 1 THEN args[2] ELSE PyInt(0)
    IN  OB_append(ts, self, PyTuple(<<Opcode("try_for_players"), args[1],
                                      IntOfBool(skip_server)>>))

\* try_for_prop_instances(iterable, **args): pos are the positional
\* arguments supplied, kw the keyword arguments, which Python collects in the
\* dict args. A second positional argument has no parameter to go to.
try_for_prop_instances(ts, self, pos, kw) ==
    IF Len(pos) > 1
    THEN [ts |-> ts, ret |-> PyNone,
          err |-> "TypeError: try_for_prop_instances() takes 2 positional arguments but 3 were given"]
    ELSE OB_append(ts, self, PyTuple(flattened_operation(
                        <<Opcode("try_for_prop_instances"), pos[1], PyDict(kw)>>)))

\* Arguments of OperatorBuilder.tuple(): an opcode, a tuple, a tuple that
\* holds a tuple, the empty tuple, and a list.
TupleArgValues ==
    {Opcode("call_script"),
     PyTuple(<<PyStr("b"), PyInt(2)>>),
     PyTuple(<<PyTuple(<<PyStr("b")>>), PyInt(2)>>),
     PyTuple(<<>>), PyList(<<PyInt(2)>>)}

\* Every argument list of up to MaxArgs of these.
TupleArgLists == UNION {[1 .. n -> TupleArgValues] : n \in 0 .. MaxArgs}

\* The argument lists of the docstrings: tuple(call_script, "script_name"),
\* and one with a tuple among its arguments.
TupleArgSamples ==
    {<<Opcode("call_script"), PyStr("script_name")>>,
     <<Opcode("call_script"), PyTuple(<<PyStr("b"), PyInt(2)>>), PyStr("script_name")>>}

\* Items handed to append(): the docstring's tuple, and a value that is none.
AppendItems == {PyTuple(<<Opcode("call_script"), PyStr("script_name")>>), PyStr("script_name")}

\* Numbers of script parameters, up to two more than call_script admits.
ParamCounts == 0 .. 18

\* The parameters 1, ..., n.
Params(n) == [i \in 1 .. n |-> PyInt(i)]

\* try_for_players(":player") alone, and with skip_server as int and bool.
PlayersArgs ==
    {<<PyStr(":player")>>, <<PyStr(":player"), PyInt(1)>>,
     <<PyStr(":player"), PyBool(TRUE)>>, <<PyStr(":player"), PyBool(FALSE)>>}

\* try_for_prop_instances(":props") alone, with the scene prop as in the
\* docstring's example, and with the scene prop as a keyword argument.
PropInstancesArgs ==
    {[pos |-> <<PyStr(":props")>>, kw |-> <<>>],
     [pos |-> <<PyStr(":props"), PyStr("spr_cannon")>>, kw |-> <<>>],
     [pos |-> <<PyStr(":props")>>,
      kw |-> <<PyTuple(<<PyStr("scene_prop_id"), PyStr("spr_cannon")>>)>>]}

\* What one OperatorBuilder call leaves behind.
OStep(op, self, args, r) ==
    /\ calls < MaxOps
    /\ calls' = calls + 1
    /\ tuples' = r.ts
    /\ held' = IF op = "OB_done" /\ r.err = ""
               THEN [held EXCEPT ![self] = @ \cup {r.ret}] ELSE held
    /\ last' = [op |-> op, self |-> self, args |-> args, err |-> r.err]
    /\ ret' = r.ret
    /\ UNCHANGED <<cls, inst, heap, nlists, handed>>

Call_OB_append(self) ==
    \E item \in AppendItems : OStep("OB_append", self, <<item>>, OB_append(tuples, self, item))

Call_OB_tuple(self) ==
    \E args \in TupleArgSamples : OStep("OB_tuple", self, args, OB_tuple(tuples, self, args))

Call_OB_tuple_wide(self) ==
    /\ Len(tuples[self]) < MaxTuples
    /\ \E args \in TupleArgLists : OStep("OB_tuple", self, args, OB_tuple(tuples, self, args))

Call_OB_done(self) == OStep("OB_done", self, <<>>, OB_done(tuples, self))

Call_call_script(self) ==
    \E n \in ParamCounts :
        OStep("call_script", self, <<PyStr("script_name")>> \o Params(n),
              call_script(tuples, self, PyStr("script_name"), Params(n)))

Call_try_for_players(self) ==
    \E args \in PlayersArgs :
        OStep("try_for_players", self, args, try_for_players(tuples, self, args))

Call_try_for_prop_instances(self) ==
    \E a \in PropInstancesArgs :
        OStep("try_for_prop_instances", self, a.pos \o <<PyDict(a.kw)>>,
              try_for_prop_instances(tuples, self, a.pos, a.kw))

Call_try_begin(self) == OStep("try_begin", self, <<>>, try_begin(tuples, self))

Call_else_try(self) == OStep("else_try", self, <<>>, else_try(tuples, self))

Call_try_end(self) == OStep("try_end", self, <<>>, try_end(tuples, self))

\* A script that builds one operation list.
NextOp ==
    \E self \in {"x"} :
        \/ Call_OB_append(self)
        \/ Call_OB_tuple(self)
        \/ Call_OB_done(self)
        \/ Call_call_script(self)
        \/ Call_try_begin(self)
        \/ Call_else_try(self)
        \/ Call_try_end(self)
        \/ Call_try_for_players(self)
        \/ Call_try_for_prop_instances(self)

\* A script that builds one operation list with tuple() alone.
NextTuple ==
    \E self \in {"x"} :
        \/ Call_OB_tuple_wide(self)
        \/ Call_OB_done(self)

\* A script that builds two operation lists and interleaves the calls.
NextOpShared ==
    \E self \in OInst :
        \/ Call_OB_append(self)
        \/ Call_try_begin(self)
        \/ Call_OB_done(self)

Spec == Init /\ [][Next]_vars

SpecShared == Init /\ [][NextShared]_vars

SpecPartner == Init /\ [][NextPartner]_vars

SpecOp == Init /\ [][NextOp]_vars

SpecTuple == Init /\ [][NextTuple]_vars

SpecOpShared == Init /\ [][NextOpShared]_vars

---------------------------------------------------------------------------
\* Vocabulary of the properties.

\* The step is a call of method op on builder self.
Called(op, self) == calls' = calls + 1 /\ last'.op = op /\ last'.self = self

\* The builder's accumulated sequence: the elements of self.dialogs.
Accumulated(w, self) == Deref(w, Get(w, self, "dialogs"))

\* The entry in progress, component by component.
InProgress(w, self) == build(w, self).ret.v

\* The unset values of the per-entry fields.
UnsetEntry == <<PyNone, PyNone, PyList(<<>>), PyStr(""), PyNone, PyList(<<>>)>>

\* partner, pre_state, post_state and the text all hold a value.
Complete(w, self) ==
    /\ Get(w, self, "partner_bitwise") # PyNone
    /\ Get(w, self, "pre_state_string") # PyNone
    /\ Get(w, self, "post_state_string") # PyNone
    /\ Get(w, self, "dialog_string") # PyNone

\* Every list object other than the one ref points to is as it was.
OtherListsUnchanged(ref) ==
    \A id \in DOMAIN heap : id # ref.v => heap'[id] = heap[id]

NoArg == <<PyList(<<>>)>>

---------------------------------------------------------------------------
\* C1: with partner, pre_state, post_state and text set, append() with no
\* argument succeeds, adds exactly one entry, made of the six fields as they
\* were, at the end of the accumulated sequence, and leaves every per-entry
\* field at its unset value.
C1_AppendEmitsAndResets ==
    [][\A self \in Inst :
          (Called("append", self) /\ last'.args = NoArg /\ Complete(World, self))
          => /\ last'.err = ""
             /\ Accumulated(World', self)
                  = Append(Accumulated(World, self), PyList(InProgress(World, self)))
             /\ OtherListsUnchanged(Get(World, self, "dialogs"))
             /\ InProgress(World', self) = UnsetEntry]_vars

\* An append() has just emitted an entry with a condition list and a text.
C1_Witness ==
    /\ last.op = "append" /\ last.args = NoArg /\ last.err = ""
    /\ heap[0] # <<>>
    /\ heap[0][Len(heap[0])].v[1] = PyInt(BitOr(anyone, plyr))
    /\ heap[0][Len(heap[0])].v[3] = PyList(<<OpTuple>>)
    /\ heap[0][Len(heap[0])].v[4] = PyStr("Hello.")

\* C2: append() with no argument fails whenever one of partner, pre_state,
\* post_state or the text still holds its unset value, and the error names
\* the first such field in the order partner, pre_state, post_state, dialog.
FirstMissingError(w, self) ==
    IF Get(w, self, "partner_bitwise") = PyNone THEN "ValueError: partner must be set"
    ELSE IF Get(w, self, "pre_state_string") = PyNone THEN "ValueError: pre_state must be set"
    ELSE IF Get(w, self, "post_state_string") = PyNone THEN "ValueError: post_state must be set"
    ELSE IF Get(w, self, "dialog_string") = PyStr("") THEN "ValueError: dialog must be set"
    ELSE ""

C2_MissingFieldFails ==
    [][\A self \in Inst :
          (Called("append", self) /\ last'.args = NoArg
             /\ FirstMissingError(World, self) # "")
          => last'.err = FirstMissingError(World, self)]_vars

\* C3: a done() that directly follows a successful done() on the same builder
\* returns an empty sequence and does not raise.
C3_SecondDoneReturnsEmpty ==
    [][\A self \in Inst :
          (last.op = "done" /\ last.self = self /\ last.err = ""
             /\ Called("done", self))
          => /\ last'.err = ""
             /\ ret'.t = "listref"
             /\ heap'[ret'.v] = <<>>]_vars

\* C4: done() on an empty accumulated sequence with a complete entry in
\* progress finalizes that entry and returns exactly it; done() on a
\* non-empty accumulated sequence returns exactly that sequence, in order,
\* and leaves the entry in progress alone.
C4_DoneReturnsAccumulated ==
    [][\A self \in Inst :
          Called("done", self)
          => /\ (Accumulated(World, self) = <<>> /\ Complete(World, self))
                => /\ last'.err = ""
                   /\ ret' = Get(World, self, "dialogs")
                   /\ heap'[ret'.v] = <<PyList(InProgress(World, self))>>
             /\ Accumulated(World, self) # <<>>
                => /\ last'.err = ""
                   /\ ret' = Get(World, self, "dialogs")
                   /\ heap'[ret'.v] = Accumulated(World, self)
                   /\ InProgress(World', self) = InProgress(World, self)]_vars

\* A done() has just returned two different entries that were appended.
C4_Witness ==
    /\ last.op = "done" /\ last.err = ""
    /\ Len(heap[ret.v]) = 2
    /\ heap[ret.v][1] # heap[ret.v][2]

\* The builder has not bound a list of its own yet (no done() has returned).
NoDoneYet(w, self) == w.inst[self]["dialogs"] = Absent

\* The entry a successful append step emits.
Emitted(self) ==
    IF last'.args = NoArg THEN PyList(InProgress(World, self)) ELSE last'.args[1]

\* C5: while neither of two builders has called done(), an entry emitted
\* through one is added to the accumulated sequence of the other as well,
\* and a done() of the other returns the entries the first one emitted.
C5_EmittedEntryIsShared ==
    [][\A i, j \in Inst :
          (i # j /\ NoDoneYet(World, i) /\ NoDoneYet(World, j))
          => /\ (Called("append", i) /\ last'.err = "")
                => /\ Accumulated(World', j)
                        = Append(Accumulated(World, j), Emitted(i))
                   /\ Accumulated(World', j) = Accumulated(World', i)
             /\ (Called("done", j) /\ Accumulated(World, i) # <<>>)
                => /\ last'.err = ""
                   /\ ret'.t = "listref"
                   /\ heap'[ret'.v] = Accumulated(World, i)]_vars

\* Builder b, which never set a field, has just got from done() the entry
\* that builder a emitted; a has not called done().
C5_Witness ==
    /\ last.op = "done" /\ last.self = "b" /\ last.err = ""
    /\ \A f \in FieldNames : inst["b"][f] = Absent
    /\ NoDoneYet(World, "a")
    /\ ret.t = "listref"
    /\ heap[ret.v] # <<>>

\* C6 as stated: a field set through one builder is what build() on every
\* other builder shows.
C6_FieldsShared ==
    \A i \in Inst :
        (last.op \in {"partner", "state"} /\ last.self = i /\ last.err = "")
        => \A j \in Inst : InProgress(World, j) = InProgress(World, i)

\* C6 as amended: no call on one builder changes what build() on another
\* builder shows, nor its reply base state: the per-entry fields are per
\* instance from their first assignment on.
C6_FieldsPerInstance ==
    [][\A i, j \in Inst :
          (i # j /\ calls' = calls + 1 /\ last'.self = i)
          => /\ InProgress(World', j) = InProgress(World, j)
             /\ Get(World', j, "pre_state_reply_string")
                  = Get(World, j, "pre_state_reply_string")]_vars

\* Two interleaved chains: a has just set its partner, b holds another one.
C6_Witness ==
    /\ last.op = "partner" /\ last.self = "a" /\ last.err = ""
    /\ Get(World, "a", "partner_bitwise") = PyInt(anyone)
    /\ Get(World, "b", "partner_bitwise") = PyInt(BitOr(anyone, plyr))
    /\ Get(World, "b", "pre_state_string") = PyStr("start")
    /\ Get(World, "a", "pre_state_string") = PyNone

\* C7: a list that done() has returned is never changed by a later call.
C7_HandedOffNeverChanges ==
    [][\A id \in handed : heap'[id] = heap[id]]_vars

\* C8: in a reply block (after a successful replies_start() with no
\* argument, or after a reply of the block), reply(text) succeeds and
\* appends one entry with speaker anyone|plyr, the reply base state as
\* pre_state, the text, and post_state "close_window".
C8_RepliesAppend ==
    [][\A self \in Inst :
          (/\ last.self = self /\ last.err = ""
           /\ \/ last.op = "replies_start" /\ last.args = <<PyStr("")>>
              \/ last.op = "reply"
           /\ Called("reply", self)
           /\ last'.args[3] = PyBool(TRUE))
          => /\ last'.err = ""
             /\ Len(Accumulated(World', self)) = Len(Accumulated(World, self)) + 1
             /\ LET acc == Accumulated(World', self)
                    e == acc[Len(acc)].v
                IN  /\ e[1] = PyInt(BitOr(anyone, plyr))
                    /\ e[2] = Get(World, self, "pre_state_reply_string")
                    /\ e[4] = last'.args[1]
                    /\ e[5] = PyStr("close_window")]_vars

C10_ExplicitAppendBypasses ==
    \A self \in Inst :
        (last.op = "append" /\ last.self = self /\ last.args = <<ExplicitDialog>>)
        => /\ last.err = ""
           /\ Accumulated(World, self) # <<>>
           /\ Accumulated(World, self)[Len(Accumulated(World, self))] = ExplicitDialog
           /\ InProgress(World, self) = UnsetEntry

\* What a caller can observe of a builder: the entry in progress, the reply
\* base state and the accumulated sequence.
Observable(w, self) ==
    <<InProgress(w, self), Get(w, self, "pre_state_reply_string"), Accumulated(w, self)>>

\* C11: a call of condition, consequence, append or done that raises leaves
\* the per-entry fields, the reply base state and the accumulated sequence
\* as they were before the call.
C11_FailedCallChangesNothing ==
    [][\A self \in Inst :
          (calls' = calls + 1 /\ last'.self = self /\ last'.err # ""
             /\ last'.op \in {"condition", "consequence", "append", "done"})
          => Observable(World', self) = Observable(World, self)]_vars

HelloFields ==
    <<PyInt(BitOr(anyone, plyr)), PyStr("start"), PyList(<<>>), PyStr("Hello."),
      PyStr("close_window"), PyList(<<>>)>>

\* The builder holds HelloFields and nothing else: nothing accumulated, no
\* reply base state, no list of its own.
AfterHelloChain(self) ==
    /\ InProgress(World, self) = HelloFields
    /\ Get(World, self, "pre_state_reply_string") = PyNone
    /\ Accumulated(World, self) = <<>>
    /\ NoDoneYet(World, self)

C14_SequenceArgumentAccepted ==
    \A self \in Inst :
        /\ (last.op = "condition" /\ last.self = self)
           => (last.err = "ValueError: condition must be a list"
                 <=> last.args[1].t \notin {"list", "tuple"})
        /\ (last.op = "consequence" /\ last.self = self)
           => (last.err = "ValueError: consequence must be a list"
                 <=> last.args[1].t \notin {"list", "tuple"})

\* C14 as amended: condition(x) and consequence(x) raise the wrong-type error
\* exactly when x is not a list; condition(x) with a list stores x as the
\* conditions, consequence(x) with a list stores x as the consequences and
\* emits: the emitted entry carries x, or, when a required field is
\* missing, x stays stored.
C14_ListArgumentRequired ==
    \A self \in Inst :
        /\ (last.op = "condition" /\ last.self = self)
           => IF last.args[1].t = "list"
              THEN /\ last.err = ""
                   /\ Get(World, self, "condition_tuples") = last.args[1]
              ELSE last.err = "ValueError: condition must be a list"
        /\ (last.op = "consequence" /\ last.self = self)
           => IF last.args[1].t = "list"
              THEN \/ /\ last.err = ""
                      /\ Accumulated(World, self) # <<>>
                      /\ Accumulated(World, self)[Len(Accumulated(World, self))].v[6]
                           = last.args[1]
                   \/ /\ last.err \in {"ValueError: partner must be set",
                                      "ValueError: pre_state must be set",
                                      "ValueError: post_state must be set",
                                      "ValueError: dialog must be set"}
                      /\ Get(World, self, "consequence_tuples") = last.args[1]
              ELSE last.err = "ValueError: consequence must be a list"

\* condition() has just rejected a tuple of operation tuples; the list given
\* to an earlier condition() is still stored.
C14_Witness ==
    /\ last.op = "condition" /\ last.args = <<PyTuple(<<OpTuple>>)>>
    /\ last.err = "ValueError: condition must be a list"
    /\ Get(World, last.self, "condition_tuples") = PyList(<<OpTuple>>)

\* Bit k of the non-negative integer n.
BitAt(n, k) == (n \div (2 ^ k)) % 2

\* The integer whose bit k is set exactly when some element of s has it set.
RECURSIVE OrOfAllBelow(_, _)
OrOfAllBelow(s, k) ==
    IF k = 0 THEN 0
    ELSE OrOfAllBelow(s, k - 1)
           + (IF \E i \in 1 .. Len(s) : BitAt(s[i].v, k - 1) = 1 THEN 2 ^ (k - 1) ELSE 0)

\* Identifiers fit in 17 bits (plyr is bit 16).
OrOfAll(s) == OrOfAllBelow(s, 17)

---------------------------------------------------------------------------
\* Claims about OperatorBuilder.

\* The number of places an argument takes in the appended tuple.
Width(x) == IF x.t = "tuple" THEN Len(x.v) ELSE 1

\* The number of places the arguments before the i-th take.
RECURSIVE PlacesBefore(_, _)
PlacesBefore(args, i) ==
    IF i = 1 THEN 0 ELSE PlacesBefore(args, i - 1) + Width(args[i - 1])

\* r holds, in argument order, the elements of every tuple argument and
\* every other argument itself, and nothing else.
SplicedOneLevel(r, args) ==
    /\ Len(r) = PlacesBefore(args, Len(args) + 1)
    /\ \A i \in 1 .. Len(args) :
          IF args[i].t = "tuple"
          THEN \A k \in 1 .. Len(args[i].v) : r[PlacesBefore(args, i) + k] = args[i].v[k]
          ELSE r[PlacesBefore(args, i) + 1] = args[i]

\* No tuple argument holds a tuple.
NestedOneLevel(args) ==
    \A i \in 1 .. Len(args) :
        args[i].t = "tuple" => \A k \in 1 .. Len(args[i].v) : args[i].v[k].t # "tuple"

\* C16: tuple(*args) appends exactly one tuple, in which every tuple
\* argument is replaced in place by its elements and every other argument
\* stands unchanged, in argument order; it is flat when no tuple argument
\* holds a tuple.
C16_TupleSplicesOneLevel ==
    [][\A self \in OInst :
          Called("OB_tuple", self)
          => /\ last'.err = ""
             /\ ret' = OBSelf(self)
             /\ Len(tuples'[self]) = Len(tuples[self]) + 1
             /\ SubSeq(tuples'[self], 1, Len(tuples[self])) = tuples[self]
             /\ LET new == tuples'[self][Len(tuples'[self])]
                IN  /\ new.t = "tuple"
                    /\ SplicedOneLevel(new.v, last'.args)
                    /\ NestedOneLevel(last'.args)
                         => \A k \in 1 .. Len(new.v) : new.v[k].t # "tuple"]_vars

\* tuple(call_script, ("b", 2), [2]) has appended (call_script, "b", 2, [2]).
C16_Witness ==
    /\ last.op = "OB_tuple" /\ last.err = ""
    /\ last.args = <<Opcode("call_script"), PyTuple(<<PyStr("b"), PyInt(2)>>), PyList(<<PyInt(2)>>)>>
    /\ tuples["x"] = <<PyTuple(<<Opcode("call_script"), PyStr("b"), PyInt(2), PyList(<<PyInt(2)>>)>>)>>

\* The error of a call_script() with too many parameters.
ParameterCountError ==
    "ValueError: Maximum number of parameters you can pass with the operation is 16."

\* C17: call_script(name, p1..pn) with n <= 16 appends the one tuple
\* (call_script, name, p1, ..., pn) of length n + 2 and returns the builder;
\* with n >= 17 it fails with the parameter-count error and the output
\* sequence is unchanged.
C17_CallScriptParameterCeiling ==
    [][\A self \in OInst :
          Called("call_script", self)
          => LET name == last'.args[1]
                 n == Len(last'.args) - 1
             IN  IF n <= 16
                 THEN /\ last'.err = ""
                      /\ ret' = OBSelf(self)
                      /\ Len(tuples'[self]) = Len(tuples[self]) + 1
                      /\ SubSeq(tuples'[self], 1, Len(tuples[self])) = tuples[self]
                      /\ LET new == tuples'[self][Len(tuples'[self])]
                         IN  /\ new.t = "tuple"
                             /\ Len(new.v) = n + 2
                             /\ new.v[1] = Opcode("call_script")
                             /\ new.v[2] = name
                             /\ \A i \in 1 .. n : new.v[i + 2] = last'.args[i + 1]
                 ELSE /\ last'.err = ParameterCountError
                      /\ tuples' = tuples]_vars

\* A call with 16 parameters has appended a tuple of 18 elements behind an
\* earlier one, and a call with 17 parameters has then failed.
C17_Witness ==
    /\ last.op = "call_script" /\ last.err = ParameterCountError
    /\ Len(last.args) = 18
    /\ Len(tuples["x"]) = 2
    /\ tuples["x"][2] = PyTuple(<<Opcode("call_script"), PyStr("script_name")>> \o Params(16))

\* The convenience methods of the model, each named after its opcode.
ConvenienceMethods ==
    {"call_script", "try_begin", "else_try", "try_end", "try_for_players",
     "try_for_prop_instances"}

\* C18: every element a convenience method appends is a tuple whose first
\* element is the method's opcode; a method without arguments appends the
\* one-element tuple (opcode,).
C18_AppendedElementIsOpcodeTuple ==
    \A self \in OInst :
        (last.op \in ConvenienceMethods /\ last.self = self /\ last.err = "")
        => LET new == tuples[self][Len(tuples[self])]
           IN  /\ new.t = "tuple"
               /\ new.v # <<>>
               /\ new.v[1] = Opcode(last.op)
               /\ last.args = <<>> => new.v = <<Opcode(last.op)>>

\* The methods of the model that append to the output sequence.
AppendingMethods == {"OB_append", "OB_tuple"} \cup ConvenienceMethods

\* C19, append: append(t) adds exactly t as the new last element, leaves the
\* earlier elements and their order unchanged, and returns the same builder.
\* Every successful appending call adds exactly one element at the end, a
\* failed one and done() add none.
C19_AppendAddsLast ==
    [][\A self \in OInst :
          /\ Called("OB_append", self)
             => /\ last'.err = ""
                /\ tuples'[self] = tuples[self] \o <<last'.args[1]>>
                /\ ret' = OBSelf(self)
          /\ (calls' = calls + 1 /\ last'.self = self)
             => IF last'.op \in AppendingMethods /\ last'.err = ""
                THEN /\ Len(tuples'[self]) = Len(tuples[self]) + 1
                     /\ SubSeq(tuples'[self], 1, Len(tuples[self])) = tuples[self]
                ELSE tuples' = tuples]_vars

\* The number of successful appending calls made so far is the length of
\* the output sequence: no call before the last one was a done() or failed.
C19_Witness ==
    /\ last.op = "OB_append" /\ last.err = "" /\ calls = MaxOps
    /\ last.args = <<PyStr("script_name")>>
    /\ tuples["x"] = <<Opcode("try_begin"),
                       PyTuple(<<Opcode("call_script"), PyStr("script_name")>>),
                       PyStr("script_name")>>

\* The sequence a result of done() stands for, in the current state.
ResultOf(r) == tuples[r.v]

\* C20: done() returns the accumulated output sequence and does not reset
\* it: a done() right after a done() returns an equal sequence, and no call
\* ever removes or reorders what an earlier done() returned, so operations
\* appended later stand behind it in the next done() result.
C20_DoneKeepsSequence ==
    [][\A self \in OInst :
          /\ Called("OB_done", self)
             => /\ last'.err = ""
                /\ ret'.t = "tuples"
                /\ tuples'[ret'.v] = tuples[self]
                /\ tuples' = tuples
                /\ (last.op = "OB_done" /\ last.self = self)
                     => tuples'[ret'.v] = ResultOf(ret)
          /\ (calls' = calls + 1 /\ last'.self = self)
             => SubSeq(tuples'[self], 1, Len(tuples[self])) = tuples[self]]_vars

\* done() has returned the two operations appended before it, and they are
\* still the builder's output sequence.
C20_Witness ==
    /\ last.op = "OB_done" /\ last.err = "" /\ ret = TuplesOf("x")
    /\ ResultOf(ret) = <<Opcode("try_begin"),
                         PyTuple(<<Opcode("call_script"), PyStr("script_name")>>)>>

---------------------------------------------------------------------------
\* Further claims about DialogBuilder.

\* C21: build() raises nothing in any state, returns the tuple of the six
\* per-entry fields as they are, complete or not, and changes nothing: the
\* fields, the reply base state and the accumulated sequence stay as they
\* were.
C21_BuildReadsOnly ==
    [][\A self \in Inst :
          Called("build", self)
          => /\ last'.err = ""
             /\ ret' = PyTuple(<<Get(World, self, "partner_bitwise"),
                                 Get(World, self, "pre_state_string"),
                                 Get(World, self, "condition_tuples"),
                                 Get(World, self, "dialog_string"),
                                 Get(World, self, "post_state_string"),
                                 Get(World, self, "consequence_tuples")>>)
             /\ \A a \in AttrNames :
                   Get(World', self, a) = Get(World, self, a)
             /\ Accumulated(World', self) = Accumulated(World, self)
             /\ World' = World]_vars

\* build() has returned an incomplete entry: speaker, state names and
\* conditions are set, the text is not; an entry was emitted before.
C21_Witness ==
    /\ last.op = "build" /\ last.err = ""
    /\ ret = PyTuple(<<PyInt(anyone), PyStr("start"), PyList(<<OpTuple>>), PyStr(""),
                       PyStr("close_window"), PyList(<<>>)>>)
    /\ Get(World, last.self, "partner_bitwise") = PyInt(anyone)
    /\ Accumulated(World, last.self) # <<>>

\* The reply base state of a builder.
ReplyBase(w, self) == Get(w, self, "pre_state_reply_string")

\* C22: pre_state(name, onReply) sets the pre_state field to name; it sets
\* the reply base state to name when onReply is true and leaves it as it
\* was when onReply is false. state(pre, post) sets the pre_state field and
\* never changes the reply base state.
C22_PreStateAndReplyBase ==
    [][\A self \in Inst :
          /\ Called("pre_state", self)
             => /\ last'.err = ""
                /\ Get(World', self, "pre_state_string") = last'.args[1]
                /\ ReplyBase(World', self)
                     = IF last'.args[2] = PyBool(TRUE) THEN last'.args[1]
                       ELSE ReplyBase(World, self)
          /\ Called("state", self)
             => /\ last'.err = ""
                /\ Get(World', self, "pre_state_string") = last'.args[1]
                /\ ReplyBase(World', self) = ReplyBase(World, self)]_vars

\* pre_state("start") without onReply has set the pre_state field and kept
\* the reply base state that replies_start() took from the last entry.
C22_Witness ==
    /\ last.op = "pre_state" /\ last.err = ""
    /\ last.args = <<PyStr("start"), PyBool(FALSE)>>
    /\ Get(World, last.self, "pre_state_string") = PyStr("start")
    /\ ReplyBase(World, last.self) = PyStr("close_window")

\* C23: end(), start() and replies_end() raise nothing, return the builder
\* they were called on and change nothing: the per-entry fields, the reply
\* base state and the accumulated sequence stay as they were.
C23_BracketsAreNoOps ==
    [][\A self \in Inst :
          (calls' = calls + 1 /\ last'.self = self
             /\ last'.op \in {"end", "start", "replies_end"})
          => /\ last'.err = ""
             /\ ret' = PySelf(self)
             /\ \A a \in AttrNames : Get(World', self, a) = Get(World, self, a)
             /\ Accumulated(World', self) = Accumulated(World, self)
             /\ World' = World]_vars

\* replies_end() has returned the builder; the entry emitted before it, the
\* reply base state and the speaker set for the next entry are in place.
C23_Witness ==
    /\ last.op = "replies_end" /\ last.err = "" /\ ret = PySelf(last.self)
    /\ Len(Accumulated(World, last.self)) = 1
    /\ ReplyBase(World, last.self) = PyStr("close_window")
    /\ Get(World, last.self, "partner_bitwise") = PyInt(anyone)

---------------------------------------------------------------------------
\* Further claims about OperatorBuilder.

\* The element the last call appended to its builder's output sequence.
Appended == tuples[last.self][Len(tuples[last.self])]

\* C24 as stated: try_for_players(dest) without skip_server appends the
\* 2-element tuple (try_for_players, dest); try_for_players(dest, s)
\* appends (try_for_players, dest, s) with a boolean s as the integer 0 or 1.
C24_SkipServerOnlyIfSupplied ==
    (last.op = "try_for_players" /\ last.self \in OInst)
    => /\ last.err = ""
       /\ Appended
            = IF Len(last.args) = 1
              THEN PyTuple(<<Opcode("try_for_players"), last.args[1]>>)
              ELSE PyTuple(<<Opcode("try_for_players"), last.args[1],
                             IF last.args[2] = PyBool(TRUE) THEN PyInt(1)
                             ELSE IF last.args[2] = PyBool(FALSE) THEN PyInt(0)
                             ELSE last.args[2]>>)

\* C24 as amended: try_for_players always appends a 3-element tuple:
\* (try_for_players, dest, 0) without skip_server, and
\* (try_for_players, dest, s) with it, a boolean s as the integer 0 or 1.
C24_SkipServerDefaultsToZero ==
    (last.op = "try_for_players" /\ last.self \in OInst)
    => /\ last.err = ""
       /\ Appended
            = PyTuple(<<Opcode("try_for_players"), last.args[1],
                        IF Len(last.args) = 1 THEN PyInt(0)
                        ELSE IF last.args[2] = PyBool(TRUE) THEN PyInt(1)
                        ELSE IF last.args[2] = PyBool(FALSE) THEN PyInt(0)
                        ELSE last.args[2]>>)

\* try_for_players(":player") has appended (try_for_players, ":player", 0)
\* behind (try_for_players, ":player", 1), appended for skip_server = True.
C24_Witness ==
    /\ last.op = "try_for_players" /\ last.err = "" /\ last.args = <<PyStr(":player")>>
    /\ tuples["x"] = <<PyTuple(<<Opcode("try_for_players"), PyStr(":player"), PyInt(1)>>),
                       PyTuple(<<Opcode("try_for_players"), PyStr(":player"), PyInt(0)>>)>>
    /\ calls = 2

\* The positional arguments of the last call, without the keyword dict that
\* closes the record of a try_for_prop_instances() call.
Positional == SubSeq(last.args, 1, Len(last.args) - 1)

\* The keyword arguments of the last try_for_prop_instances() call.
Keywords == last.args[Len(last.args)].v

\* C25: try_for_prop_instances(dest) without the optional argument appends
\* the flat 2-element tuple (try_for_prop_instances, dest); with the scene
\* prop id supplied, by position or by keyword, it appends the flat
\* 3-element tuple (try_for_prop_instances, dest, scene_prop_id).
C25_ScenePropIsThirdElement ==
    (last.op = "try_for_prop_instances" /\ last.self \in OInst)
    => /\ last.err = ""
       /\ Appended
            = PyTuple(<<Opcode("try_for_prop_instances"), Positional[1]>>
                      \o (IF Len(Positional) > 1 THEN <<Positional[2]>>
                          ELSE IF Keywords # <<>> THEN <<Keywords[1].v[2]>>
                          ELSE <<>>))

\* C26: the flattening of tuple() is one level deep and for tuples only: a
\* tuple inside a tuple argument is appended as that tuple, a list argument
\* is one element of the appended tuple, and tuple() without arguments
\* appends the empty tuple.
C26_FlatteningStopsAtOneLevel ==
    [][\A self \in OInst :
          Called("OB_tuple", self)
          => LET args == last'.args
                 new == tuples'[self][Len(tuples'[self])]
             IN  /\ last'.err = ""
                 /\ new.t = "tuple"
                 /\ args = <<>> => new = PyTuple(<<>>)
                 /\ \A i \in 1 .. Len(args) :
                       /\ args[i].t = "list"
                          => new.v[PlacesBefore(args, i) + 1] = args[i]
                       /\ args[i].t = "tuple"
                          => \A k \in 1 .. Len(args[i].v) :
                                args[i].v[k].t = "tuple"
                                => new.v[PlacesBefore(args, i) + k] = args[i].v[k]
                 /\ Cardinality({k \in 1 .. Len(new.v) : new.v[k].t = "list"})
                      = Cardinality({i \in 1 .. Len(args) : args[i].t = "list"})
                 /\ Cardinality({k \in 1 .. Len(new.v) : new.v[k].t = "tuple"})
                      = Cardinality(UNION {{<<i, k>> : k \in {k \in 1 .. Width(args[i]) :
                                                  /\ args[i].t = "tuple"
                                                  /\ args[i].v[k].t = "tuple"}} :
                                           i \in 1 .. Len(args)})]_vars

\* tuple(call_script, (("b",), 2), [2]) has appended
\* (call_script, ("b",), 2, [2]): the inner tuple and the list are whole.
C26_Witness ==
    /\ last.op = "OB_tuple" /\ last.err = ""
    /\ last.args = <<Opcode("call_script"),
                     PyTuple(<<PyTuple(<<PyStr("b")>>), PyInt(2)>>),
                     PyList(<<PyInt(2)>>)>>
    /\ tuples["x"] = <<PyTuple(<<Opcode("call_script"), PyTuple(<<PyStr("b")>>), PyInt(2),
                                 PyList(<<PyInt(2)>>)>>)>>

\* partner, pre_state, post_state and the text are all unset.
NoRequiredFieldSet(w, self) ==
    /\ Get(w, self, "partner_bitwise") = PyNone
    /\ Get(w, self, "pre_state_string") = PyNone
    /\ Get(w, self, "post_state_string") = PyNone
    /\ Get(w, self, "dialog_string") \in {PyStr(""), PyNone}

\* C27: done() on a builder whose accumulated sequence is empty and whose
\* required fields are all unset fails with the 'partner must be set' error
\* of the implicit append, returns no sequence and leaves the accumulated
\* sequence empty (and everything else as it was).
C27_DoneOnEmptyFails ==
    [][\A self \in Inst :
          (/\ Called("done", self)
           /\ Accumulated(World, self) = <<>>
           /\ NoRequiredFieldSet(World, self))
          => /\ last'.err = "ValueError: partner must be set"
             /\ ret' = PyNone
             /\ handed' = handed
             /\ Accumulated(World', self) = <<>>
             /\ World' = World]_vars

\* done() has failed directly after a done() that had returned a sequence.
C27_Witness ==
    /\ last.op = "done" /\ last.err = "ValueError: partner must be set"
    /\ handed # {} /\ ret = PyNone
    /\ Accumulated(World, last.self) = <<>>
    /\ NoRequiredFieldSet(World, last.self)

\* C28: the reply base state is no per-entry field: a successful append(),
\* consequence() or done() leaves it as it was, and so does every call
\* other than pre_state() with onReply and replies_start(); it keeps the
\* value those gave it across the entries emitted afterwards.
C28_ReplyBaseOutlivesEntries ==
    [][\A self \in Inst :
          /\ (calls' = calls + 1 /\ last'.self = self /\ last'.err = ""
                /\ last'.op \in {"append", "consequence", "done"})
             => ReplyBase(World', self) = ReplyBase(World, self)
          /\ (calls' = calls + 1 /\ last'.self = self
                /\ last'.op # "replies_start"
                /\ ~(last'.op = "pre_state" /\ last'.args[2] = PyBool(TRUE)))
             => ReplyBase(World', self) = ReplyBase(World, self)]_vars

\* consequence() has emitted an entry and set the per-entry fields back; the
\* reply base state still is the name given by pre_state("start", True).
C28_Witness ==
    /\ last.op = "consequence" /\ last.err = ""
    /\ Len(Accumulated(World, last.self)) = 1
    /\ InProgress(World, last.self) = UnsetEntry
    /\ ReplyBase(World, last.self) = PyStr("start")

ValueAt(r, ts) == IF r.t = "tuples" THEN ts[r.v] ELSE r.v

====
